---- MODULE Spec2Model ----
(***************************************************************************)
(* Asset ledger chaincode (asset-transfer-basic/chaincode-go).             *)
(*                                                                         *)
(* The world state is a key-value store.  Every invocation of the contract *)
(* reads the committed world state through GetState, buffers its PutState  *)
(* calls in a write set, and the write set is applied, in order, only when *)
(* the invocation returns without an error.                                *)
(*                                                                         *)
(* Strings are NUL-free and valid UTF-8 (the only strings for which        *)
(* CreateCompositeKey succeeds).  A store key is represented by the        *)
(* sequence of its segments between U+0000 separators, so the simple key   *)
(* "gem" is <<"gem">> and the composite key "\x00Asset\x00gem\x00seo\x00"  *)
(* is <<"", "Asset", "gem", "seo", "">>.                                   *)
(***************************************************************************)
EXTENDS Integers, Sequences, FiniteSets, TLC

VARIABLES
    world,      \* committed world state: store key -> stored JSON value
    created,    \* history: (Kind, Owner) pairs some operation has created
    last,       \* history: the last invocation, its arguments and outcome
    nops,       \* number of invocations so far
    detail,     \* history: the write set and the listing of the last invocation
    mvcc        \* key versions and the transactions in flight at the store

vars == <<world, created, last, nops, detail, mvcc>>

-----------------------------------------------------------------------------
(* Bounds of the model *)

MaxOps == 2
MaxAmount == 4

Kinds == {"gem", "exp"}
Owners == {"Distrib", "seo", "team1"}
Amounts == {-1, 0, 1, MaxAmount}

-----------------------------------------------------------------------------
(* Error kinds, named after the messages the code returns *)

OK == "OK"
NotFound == "NotFound"                       \* "the asset %s does not exist", "user does not own any Gem"
AlreadyExists == "AlreadyExists"             \* "the asset %s already exists"
InsufficientBalance == "InsufficientBalance" \* "... does not have enough amount to transfer", "insufficient Gem balance"
InvalidArgument == "InvalidArgument"         \* "gemAmount must be positive"
StoreError == "StoreError"                   \* an error returned by a stub call, passed on
SerializationError == "SerializationError"   \* "failed to unmarshal asset: %v"

-----------------------------------------------------------------------------
(* The Asset struct and its JSON encoding *)

Asset(id, owner, amount) == [ID |-> id, Owner |-> owner, Amount |-> amount]

ZeroAsset == Asset("", "", 0)

\* json.Marshal: an object of name/value members in struct field order.
Marshal(asset) ==
    << <<"ID", asset.ID>>, <<"Owner", asset.Owner>>, <<"Amount", asset.Amount>> >>

\* The value of member `name` of a JSON object, or `zero` when it has none.
Member(json, name, zero) ==
    IF \E i \in 1..Len(json) : json[i][1] = name
    THEN json[CHOOSE i \in 1..Len(json) :
                 /\ json[i][1] = name
                 /\ \A j \in (i+1)..Len(json) : json[j][1] # name][2]
    ELSE zero

\* json.Unmarshal into a zero-valued Asset: members are matched by name.
Unmarshal(json) ==
    [ID     |-> Member(json, "ID", ""),
     Owner  |-> Member(json, "Owner", ""),
     Amount |-> Member(json, "Amount", 0)]

-----------------------------------------------------------------------------
(* The chaincode stub *)

\* GetState returns nil for a key that is not in the world state.
Nil == <<>>

\* stub.CreateCompositeKey(objectType, attributes):
\* "\x00" + objectType + "\x00" + attr1 + "\x00" + ... + attrN + "\x00"
CreateCompositeKey(objectType, attributes) ==
    <<"", objectType>> \o attributes \o <<"">>

\* stub.GetState(key) on the committed world state w.
GetState(w, key) == IF key \in DOMAIN w THEN w[key] ELSE Nil

\* One buffered stub.PutState(key, value).
PutState(key, value) == <<key, value>>

\* Commit of a write set: the puts are applied in the order they were made.
RECURSIVE ApplyWrites(_, _)
ApplyWrites(w, writes) ==
    IF writes = <<>> THEN w
    ELSE LET k == writes[1][1]
             v == writes[1][2]
             w1 == [x \in (DOMAIN w) \cup {k} |-> IF x = k THEN v ELSE w[x]]
         IN  ApplyWrites(w1, Tail(writes))

\* What an invocation returns: the error, the write set, the returned values.
Response(err, writes, asset, exists, oldOwner) ==
    [err |-> err, writes |-> writes, asset |-> asset, exists |-> exists,
     oldOwner |-> oldOwner]

Fail(err) == Response(err, <<>>, ZeroAsset, FALSE, "")

-----------------------------------------------------------------------------
(* The contract's operations, each a function of the committed world state *)

\* The literal records InitLedger writes.
InitAssets ==
    << Asset("exp", "distrib", 5),
       Asset("gem", "seo", 3000),
       Asset("gem", "team1", 3),
       Asset("exp", "team1", 6),
       Asset("gem", "team2", 15),
       Asset("exp", "team2", 30) >>

\* InitLedger deriving each key from the Kind alone.
InitLedger_KeyedByKind(w) ==
    Response(OK,
             [i \in 1..Len(InitAssets) |->
                 PutState(CreateCompositeKey("Asset", <<InitAssets[i].ID>>),
                          Marshal(InitAssets[i]))],
             ZeroAsset, FALSE, "")

\* InitLedger leaving the records that already exist as they are.
InitLedger_OnlyIfAbsent(w) ==
    Response(OK,
             SelectSeq([i \in 1..Len(InitAssets) |->
                           PutState(CreateCompositeKey("Asset", <<InitAssets[i].ID, InitAssets[i].Owner>>),
                                    Marshal(InitAssets[i]))],
                       LAMBDA put : put[1] \notin DOMAIN w),
             ZeroAsset, FALSE, "")

\* InitLedger: one PutState per literal record, at its composite key.
InitLedger(w) ==
    Response(OK,
             [i \in 1..Len(InitAssets) |->
                 PutState(CreateCompositeKey("Asset", <<InitAssets[i].ID, InitAssets[i].Owner>>),
                          Marshal(InitAssets[i]))],
             ZeroAsset, FALSE, "")

\* AssetExists looking the record up under the id alone.
AssetExists_AtSimpleKey(w, id, owner) ==
    LET assetJSON == GetState(w, <<id>>)
    IN  Response(OK, <<>>, ZeroAsset, assetJSON # Nil, "")

\* AssetExists: assetJSON != nil at the composite key.
AssetExists(w, id, owner) ==
    LET compositeKey == CreateCompositeKey("Asset", <<id, owner>>)
        assetJSON == GetState(w, compositeKey)
    IN  Response(OK, <<>>, ZeroAsset, assetJSON # Nil, "")

\* ReadAsset putting back the record it has read.
ReadAsset_WritingBack(w, id, owner) ==
    LET compositeKey == CreateCompositeKey("Asset", <<id, owner>>)
        assetJSON == GetState(w, compositeKey)
    IN  IF assetJSON = Nil
        THEN Fail(NotFound)
        ELSE Response(OK, <<PutState(compositeKey, Marshal(Unmarshal(assetJSON)))>>,
                      Unmarshal(assetJSON), FALSE, "")

\* ReadAsset: the record unmarshalled from the value at the composite key.
ReadAsset(w, id, owner) ==
    LET compositeKey == CreateCompositeKey("Asset", <<id, owner>>)
        assetJSON == GetState(w, compositeKey)
    IN  IF assetJSON = Nil
        THEN Fail(NotFound)
        ELSE Response(OK, <<>>, Unmarshal(assetJSON), FALSE, "")

\* CreateAsset writing under the id alone, as UpdateAsset does.
CreateAsset_AtSimpleKey(w, id, amount, owner) ==
    LET exists == AssetExists(w, id, owner).exists
    IN  IF exists
        THEN Fail(AlreadyExists)
        ELSE Response(OK,
                      <<PutState(<<id>>, Marshal(Asset(id, owner, amount)))>>,
                      ZeroAsset, FALSE, "")

\* CreateAsset: refuses an existing record, else writes at the composite key.
CreateAsset(w, id, amount, owner) ==
    LET compositeKey == CreateCompositeKey("Asset", <<id, owner>>)
        exists == AssetExists(w, id, owner).exists
    IN  IF exists
        THEN Fail(AlreadyExists)
        ELSE Response(OK,
                      <<PutState(compositeKey, Marshal(Asset(id, owner, amount)))>>,
                      ZeroAsset, FALSE, "")

\* UpdateAsset without its existence check.
UpdateAsset_NoExistenceCheck(w, id, owner, amount) ==
    Response(OK,
             <<PutState(<<id>>, Marshal(Asset(id, owner, amount)))>>,
             ZeroAsset, FALSE, "")

\* UpdateAsset: checks existence at the composite key, then PutState(id, ...):
\* the write goes to the simple key made of the id alone.
UpdateAsset(w, id, owner, amount) ==
    LET exists == AssetExists(w, id, owner).exists
    IN  IF ~exists
        THEN Fail(NotFound)
        ELSE Response(OK,
                      <<PutState(<<id>>, Marshal(Asset(id, owner, amount)))>>,
                      ZeroAsset, FALSE, "")

\* TransferAsset without its balance check.
TransferAsset_NoBalanceCheck(w, id, owner, newOwner, amount) ==
    LET read == ReadAsset(w, id, owner)
        asset == read.asset
    IN  IF read.err # OK THEN Fail(read.err)
        ELSE Response(OK,
                      << PutState(CreateCompositeKey("Asset", <<id, newOwner>>),
                                  Marshal(Asset(id, newOwner, amount))),
                         PutState(CreateCompositeKey("Asset", <<id, owner>>),
                                  Marshal([asset EXCEPT !.Amount = asset.Amount - amount])) >>,
                      ZeroAsset, FALSE, asset.Owner)

\* TransferAsset writing the old owner's record under the id alone.
TransferAsset_DebitAtSimpleKey(w, id, owner, newOwner, amount) ==
    LET read == ReadAsset(w, id, owner)
        asset == read.asset
    IN  IF read.err # OK THEN Fail(read.err)
        ELSE IF asset.Amount < amount THEN Fail(InsufficientBalance)
        ELSE Response(OK,
                      << PutState(CreateCompositeKey("Asset", <<id, newOwner>>),
                                  Marshal(Asset(id, newOwner, amount))),
                         PutState(<<id>>,
                                  Marshal([asset EXCEPT !.Amount = asset.Amount - amount])) >>,
                      ZeroAsset, FALSE, asset.Owner)

\* TransferAsset: the new owner's record is written with Amount = amount, then
\* the old owner's record with its Amount reduced by amount.
TransferAsset(w, id, owner, newOwner, amount) ==
    LET read == ReadAsset(w, id, owner)
        asset == read.asset
        newAsset == Asset(id, newOwner, amount)
        newCompositeKey == CreateCompositeKey("Asset", <<id, newOwner>>)
        oldCompositeKey == CreateCompositeKey("Asset", <<id, owner>>)
    IN  IF read.err # OK THEN Fail(read.err)
        ELSE IF asset.Amount < amount THEN Fail(InsufficientBalance)
        ELSE Response(OK,
                      << PutState(newCompositeKey, Marshal(newAsset)),
                         PutState(oldCompositeKey,
                                  Marshal([asset EXCEPT !.Amount = asset.Amount - amount])) >>,
                      ZeroAsset, FALSE, asset.Owner)

\* The fixed collector owner of TransferGemToDistrib.
Collector == "Distrib"

\* TransferGemToDistrib without the check that gemAmount is positive.
TransferGemToDistrib_NoValidation(w, user, gemAmount) ==
    LET userGemKey == CreateCompositeKey("Asset", <<"gem", user>>)
        userGemJSON == GetState(w, userGemKey)
        userGem == Unmarshal(userGemJSON)
        distribGemKey == CreateCompositeKey("Asset", <<"gem", Collector>>)
        distribGemJSON == GetState(w, distribGemKey)
        distribGem == IF distribGemJSON # Nil
                      THEN Unmarshal(distribGemJSON)
                      ELSE Asset("gem", Collector, 0)
        userExpKey == CreateCompositeKey("Asset", <<"exp", user>>)
        userExpJSON == GetState(w, userExpKey)
        userExp == IF userExpJSON # Nil
                   THEN Unmarshal(userExpJSON)
                   ELSE Asset("exp", user, 0)
    IN  IF userGemJSON = Nil THEN Fail(NotFound)
        ELSE IF userGem.Amount < gemAmount THEN Fail(InsufficientBalance)
        ELSE Response(OK,
                      << PutState(userGemKey,
                                  Marshal([userGem EXCEPT !.Amount = userGem.Amount - gemAmount])),
                         PutState(distribGemKey,
                                  Marshal([distribGem EXCEPT !.Amount = distribGem.Amount + gemAmount])),
                         PutState(userExpKey,
                                  Marshal([userExp EXCEPT !.Amount = userExp.Amount + gemAmount])) >>,
                      ZeroAsset, FALSE, "")

\* TransferGemToDistrib taking an absent gem record for an empty one.
TransferGemToDistrib_NoNilCheck(w, user, gemAmount) ==
    LET userGemKey == CreateCompositeKey("Asset", <<"gem", user>>)
        userGemJSON == GetState(w, userGemKey)
        userGem == Unmarshal(userGemJSON)
        distribGemKey == CreateCompositeKey("Asset", <<"gem", Collector>>)
        distribGemJSON == GetState(w, distribGemKey)
        distribGem == IF distribGemJSON # Nil
                      THEN Unmarshal(distribGemJSON)
                      ELSE Asset("gem", Collector, 0)
        userExpKey == CreateCompositeKey("Asset", <<"exp", user>>)
        userExpJSON == GetState(w, userExpKey)
        userExp == IF userExpJSON # Nil
                   THEN Unmarshal(userExpJSON)
                   ELSE Asset("exp", user, 0)
    IN  IF gemAmount <= 0 THEN Fail(InvalidArgument)
        ELSE IF userGem.Amount < gemAmount THEN Fail(InsufficientBalance)
        ELSE Response(OK,
                      << PutState(userGemKey,
                                  Marshal([userGem EXCEPT !.Amount = userGem.Amount - gemAmount])),
                         PutState(distribGemKey,
                                  Marshal([distribGem EXCEPT !.Amount = distribGem.Amount + gemAmount])),
                         PutState(userExpKey,
                                  Marshal([userExp EXCEPT !.Amount = userExp.Amount + gemAmount])) >>,
                      ZeroAsset, FALSE, "")

\* TransferGemToDistrib (the spec's ConvertGemToExp): moves gemAmount of gem
\* from user to the collector and credits gemAmount of exp to the user.
TransferGemToDistrib(w, user, gemAmount) ==
    LET userGemKey == CreateCompositeKey("Asset", <<"gem", user>>)
        userGemJSON == GetState(w, userGemKey)
        userGem == Unmarshal(userGemJSON)
        distribGemKey == CreateCompositeKey("Asset", <<"gem", Collector>>)
        distribGemJSON == GetState(w, distribGemKey)
        distribGem == IF distribGemJSON # Nil
                      THEN Unmarshal(distribGemJSON)
                      ELSE Asset("gem", Collector, 0)
        userExpKey == CreateCompositeKey("Asset", <<"exp", user>>)
        userExpJSON == GetState(w, userExpKey)
        userExp == IF userExpJSON # Nil
                   THEN Unmarshal(userExpJSON)
                   ELSE Asset("exp", user, 0)
    IN  IF gemAmount <= 0 THEN Fail(InvalidArgument)
        ELSE IF userGemJSON = Nil THEN Fail(NotFound)
        ELSE IF userGem.Amount < gemAmount THEN Fail(InsufficientBalance)
        ELSE Response(OK,
                      << PutState(userGemKey,
                                  Marshal([userGem EXCEPT !.Amount = userGem.Amount - gemAmount])),
                         PutState(distribGemKey,
                                  Marshal([distribGem EXCEPT !.Amount = distribGem.Amount + gemAmount])),
                         PutState(userExpKey,
                                  Marshal([userExp EXCEPT !.Amount = userExp.Amount + gemAmount])) >>,
                      ZeroAsset, FALSE, "")

-----------------------------------------------------------------------------
(* Enumeration *)

\* The strings of the model in byte order (upper case sorts before lower case).
StringOrder ==
    <<"", "Asset", "Distrib", "distrib", "exp", "gem", "seo", "team1", "team2">>

Rank(str) == CHOOSE i \in 1..Len(StringOrder) : StringOrder[i] = str

\* Byte order of two store keys: U+0000 is the least byte, so keys compare
\* segment by segment, and a proper prefix sorts first.
RECURSIVE KeyLess(_, _)
KeyLess(k1, k2) ==
    IF k2 = <<>> THEN FALSE
    ELSE IF k1 = <<>> THEN TRUE
    ELSE IF k1[1] # k2[1] THEN Rank(k1[1]) < Rank(k2[1])
    ELSE KeyLess(Tail(k1), Tail(k2))

\* A range scan that covers every key of the world state.
ScanRange_AllKeys(w, objectType) == DOMAIN w

\* The keys a range scan over the partial composite key (objectType, no
\* attributes) covers: those that start with "\x00" + objectType + "\x00".
ScanRange(w, objectType) ==
    {k \in DOMAIN w : Len(k) >= 3 /\ k[1] = "" /\ k[2] = objectType}

\* The keys of a set in store-iteration order.
RECURSIVE InKeyOrder(_)
InKeyOrder(keys) ==
    IF keys = {} THEN <<>>
    ELSE LET first == CHOOSE k \in keys : \A x \in keys \ {k} : KeyLess(k, x)
         IN  <<first>> \o InKeyOrder(keys \ {first})

\* Bytes json.Unmarshal rejects, and its error.
Malformed == <<"malformed">>
UnmarshalFails(json) == json = Malformed

\* A failure the store may inject into a range scan: none, the scan cannot be
\* opened, Next fails at entry i, or entry i is delivered with malformed bytes.
NoFault == [at |-> "none", i |-> 0]

\* What GetAllAssets returns and what it did with the cursor.
Listing(err, assets, opened, closed) ==
    [err |-> err, assets |-> assets, opened |-> opened, closed |-> closed]

\* One step of the enumeration loop from entry i on, with `acc` collected.
RECURSIVE Iterate(_, _, _, _, _)
Iterate(w, keys, i, acc, fault) ==
    IF i > Len(keys) THEN Listing(OK, acc, TRUE, TRUE)
    ELSE IF fault.at = "next" /\ fault.i = i
         THEN Listing(StoreError, <<>>, TRUE, TRUE)
    ELSE LET value == IF fault.at = "value" /\ fault.i = i
                      THEN Malformed ELSE w[keys[i]]
         IN  IF UnmarshalFails(value)
             THEN Listing(SerializationError, <<>>, TRUE, TRUE)
             ELSE Iterate(w, keys, i + 1, Append(acc, Unmarshal(value)), fault)

\* GetAllAssets closing the cursor at the end of the loop instead of deferring.
GetAllAssets_CloseOnSuccessOnly(w, fault) ==
    IF fault.at = "open"
    THEN Listing(StoreError, <<>>, FALSE, FALSE)
    ELSE LET listing == Iterate(w, InKeyOrder(ScanRange(w, "Asset")), 1, <<>>, fault)
         IN  [listing EXCEPT !.closed = (listing.err = OK)]

\* GetAllAssets: opens a cursor over the "Asset" range, defers its Close, and
\* unmarshals every entry in iteration order; any error ends the enumeration.
GetAllAssets(w, fault) ==
    IF fault.at = "open"
    THEN Listing(StoreError, <<>>, FALSE, FALSE)
    ELSE Iterate(w, InKeyOrder(ScanRange(w, "Asset")), 1, <<>>, fault)

-----------------------------------------------------------------------------
(* The stub calls each operation makes, in order, when no call fails *)

Get(key) == [call |-> "GetState", key |-> key]
Put(key) == [call |-> "PutState", key |-> key]
Scan(objectType) == [call |-> "GetStateByPartialCompositeKey", key |-> <<"", objectType>>]

PutsOf(writes) == [i \in 1..Len(writes) |-> Put(writes[i][1])]

StubCalls(op, w, id, owner, newOwner, amount) ==
    CASE op = "InitLedger" -> PutsOf(InitLedger(w).writes)
      [] op = "AssetExists" -> <<Get(CreateCompositeKey("Asset", <<id, owner>>))>>
      [] op = "ReadAsset" -> <<Get(CreateCompositeKey("Asset", <<id, owner>>))>>
      [] op = "CreateAsset" ->
            <<Get(CreateCompositeKey("Asset", <<id, owner>>))>>
                \o PutsOf(CreateAsset(w, id, amount, owner).writes)
      [] op = "UpdateAsset" ->
            <<Get(CreateCompositeKey("Asset", <<id, owner>>))>>
                \o PutsOf(UpdateAsset(w, id, owner, amount).writes)
      [] op = "TransferAsset" ->
            <<Get(CreateCompositeKey("Asset", <<id, owner>>))>>
                \o PutsOf(TransferAsset(w, id, owner, newOwner, amount).writes)
      [] op = "TransferGemToDistrib" ->
            LET resp == TransferGemToDistrib(w, owner, amount)
                userGemKey == CreateCompositeKey("Asset", <<"gem", owner>>)
                distribGemKey == CreateCompositeKey("Asset", <<"gem", Collector>>)
                userExpKey == CreateCompositeKey("Asset", <<"exp", owner>>)
            IN  IF amount <= 0 THEN <<>>
                ELSE IF resp.err # OK THEN <<Get(userGemKey)>>
                ELSE <<Get(userGemKey), Get(distribGemKey), Put(userGemKey),
                       Put(distribGemKey), Get(userExpKey), Put(userExpKey)>>
      [] op = "GetAllAssets" -> <<Scan("Asset")>>

-----------------------------------------------------------------------------
(* The ledger as a state machine: one action per operation of the contract *)

EmptyWorld == [k \in {} |-> Nil]

NoCall ==
    [op |-> "none", id |-> "", owner |-> "", newOwner |-> "", amount |-> 0,
     err |-> OK, asset |-> ZeroAsset, exists |-> FALSE, oldOwner |-> "",
     pre |-> EmptyWorld, preCreated |-> {}]

\* The clients that submit transactions concurrently.
Clients == {1, 2}

\* A transaction that has not been simulated yet.
IdleTx ==
    [status |-> "idle", id |-> "", owner |-> "", newOwner |-> "", amount |-> 0,
     reads |-> {}, writes |-> <<>>, first |-> "none"]

\* The store before any transaction: every key at version 0.
NoMvcc ==
    [version |-> [k \in {} |-> 0], tx |-> [c \in Clients |-> IdleTx],
     base |-> EmptyWorld, overlapped |-> FALSE]

\* The record kept in `detail`.
Detail(writes, listing, failAt, fault) ==
    [writes |-> writes, listing |-> listing, failAt |-> failAt, fault |-> fault]

NoListing == Listing(OK, <<>>, FALSE, FALSE)

Init ==
    /\ world = EmptyWorld
    /\ created = {}
    /\ last = NoCall
    /\ nops = 0
    /\ detail = Detail(<<>>, NoListing, 0, NoFault)
    /\ mvcc = NoMvcc

\* The end of one invocation: the write set is committed only when no error
\* is returned.  `makes` are the (Kind, Owner) pairs the operation creates
\* when it succeeds.
Commit(op, id, owner, newOwner, amount, resp, makes) ==
    /\ nops < MaxOps
    /\ nops' = nops + 1
    /\ world' = IF resp.err = OK THEN ApplyWrites(world, resp.writes) ELSE world
    /\ created' = IF resp.err = OK THEN created \cup makes ELSE created
    /\ last' = [op |-> op, id |-> id, owner |-> owner, newOwner |-> newOwner,
                amount |-> amount, err |-> resp.err, asset |-> resp.asset,
                exists |-> resp.exists, oldOwner |-> resp.oldOwner,
                pre |-> world, preCreated |-> created]
    /\ UNCHANGED mvcc

\* One invocation in which no stub call fails.
Invoke(op, id, owner, newOwner, amount, resp, makes) ==
    /\ Commit(op, id, owner, newOwner, amount, resp, makes)
    /\ detail' = Detail(resp.writes, NoListing, 0, NoFault)

InvokeInitLedger ==
    Invoke("InitLedger", "", "", "", 0, InitLedger(world),
           {<<InitAssets[i].ID, InitAssets[i].Owner>> : i \in 1..Len(InitAssets)})

InvokeCreateAsset ==
    \E id \in Kinds, owner \in Owners, amount \in Amounts :
        Invoke("CreateAsset", id, owner, "", amount,
               CreateAsset(world, id, amount, owner), {<<id, owner>>})

InvokeReadAsset ==
    \E id \in Kinds, owner \in Owners :
        Invoke("ReadAsset", id, owner, "", 0, ReadAsset(world, id, owner), {})

InvokeUpdateAsset ==
    \E id \in Kinds, owner \in Owners, amount \in Amounts :
        Invoke("UpdateAsset", id, owner, "", amount,
               UpdateAsset(world, id, owner, amount), {})

InvokeAssetExists ==
    \E id \in Kinds, owner \in Owners :
        Invoke("AssetExists", id, owner, "", 0, AssetExists(world, id, owner), {})

InvokeTransferAsset ==
    \E id \in Kinds, owner \in Owners, newOwner \in Owners, amount \in Amounts :
        Invoke("TransferAsset", id, owner, newOwner, amount,
               TransferAsset(world, id, owner, newOwner, amount), {<<id, newOwner>>})

InvokeTransferGemToDistrib ==
    \E user \in Owners, gemAmount \in Amounts :
        Invoke("TransferGemToDistrib", "", user, "", gemAmount,
               TransferGemToDistrib(world, user, gemAmount),
               {<<"gem", Collector>>, <<"exp", user>>})

\* GetAllAssets makes no PutState; its listing is kept in `detail`.
InvokeGetAllAssets ==
    LET listing == GetAllAssets(world, NoFault)
    IN  /\ Commit("GetAllAssets", "", "", "", 0, Fail(listing.err), {})
        /\ detail' = Detail(<<>>, listing, 0, NoFault)

Next ==
    \/ InvokeInitLedger
    \/ InvokeCreateAsset
    \/ InvokeReadAsset
    \/ InvokeUpdateAsset
    \/ InvokeAssetExists
    \/ InvokeTransferAsset
    \/ InvokeTransferGemToDistrib
    \/ InvokeGetAllAssets

Spec == Init /\ [][Next]_vars

-----------------------------------------------------------------------------
(* Invocations in which a stub call may fail *)

\* The number of PutState calls among the first n stub calls.
RECURSIVE PutsAmong(_, _)
PutsAmong(calls, n) ==
    IF n = 0 THEN 0
    ELSE (IF calls[n].call = "PutState" THEN 1 ELSE 0) + PutsAmong(calls, n - 1)

\* An operation that goes on after a failed PutState as if it had succeeded.
RunWithFault_IgnoringPutError(resp, calls, failAt) ==
    IF failAt \notin 1..Len(calls) THEN resp
    ELSE IF calls[failAt].call = "PutState"
         THEN LET n == PutsAmong(calls, failAt)
              IN  [resp EXCEPT !.writes =
                       SubSeq(resp.writes, 1, n - 1) \o SubSeq(resp.writes, n + 1, Len(resp.writes))]
         ELSE [Fail(StoreError) EXCEPT
                  !.writes = SubSeq(resp.writes, 1, PutsAmong(calls, failAt - 1))]

\* The operation whose stub calls are `calls` and whose response is `resp`
\* when none fails, run with call number failAt failing: every
\* stub call is followed by `if err != nil { return ..., err }`, so the
\* operation returns the error with only the earlier puts buffered.
RunWithFault(resp, calls, failAt) ==
    IF failAt \notin 1..Len(calls) THEN resp
    ELSE [Fail(StoreError) EXCEPT
             !.writes = SubSeq(resp.writes, 1, PutsAmong(calls, failAt - 1))]

\* One invocation of a multi-write operation in which one stub call fails.
InvokeWithFault(op, id, owner, newOwner, amount, resp, makes) ==
    LET calls == StubCalls(op, world, id, owner, newOwner, amount)
    IN  \E failAt \in 1..Len(calls) :
            LET run == RunWithFault(resp, calls, failAt)
            IN  /\ Commit(op, id, owner, newOwner, amount, run, makes)
                /\ detail' = Detail(run.writes, NoListing, failAt, NoFault)

FaultyInitLedger ==
    InvokeWithFault("InitLedger", "", "", "", 0, InitLedger(world),
                    {<<InitAssets[i].ID, InitAssets[i].Owner>> : i \in 1..Len(InitAssets)})

FaultyTransferAsset ==
    \E id \in Kinds, owner \in Owners, newOwner \in Owners, amount \in Amounts :
        InvokeWithFault("TransferAsset", id, owner, newOwner, amount,
                        TransferAsset(world, id, owner, newOwner, amount),
                        {<<id, newOwner>>})

FaultyTransferGemToDistrib ==
    \E user \in Owners, gemAmount \in Amounts :
        InvokeWithFault("TransferGemToDistrib", "", user, "", gemAmount,
                        TransferGemToDistrib(world, user, gemAmount),
                        {<<"gem", Collector>>, <<"exp", user>>})

\* The failures the store may inject into a scan of world state w.
ScanFaults(w) ==
    {NoFault, [at |-> "open", i |-> 0]}
        \cup {[at |-> how, i |-> i] :
                  how \in {"next", "value"}, i \in 1..Cardinality(ScanRange(w, "Asset"))}

FaultyGetAllAssets ==
    \E fault \in ScanFaults(world) :
        LET listing == GetAllAssets(world, fault)
        IN  /\ Commit("GetAllAssets", "", "", "", 0, Fail(listing.err), {})
            /\ detail' = Detail(<<>>, listing, 0, fault)

\* The ledger is built by invocations without failures; the multi-write
\* operations and the enumeration run with a failing stub call.
NextFault ==
    \/ InvokeInitLedger
    \/ InvokeCreateAsset
    \/ FaultyInitLedger
    \/ FaultyTransferAsset
    \/ FaultyTransferGemToDistrib
    \/ FaultyGetAllAssets

SpecFault == Init /\ [][NextFault]_vars

-----------------------------------------------------------------------------
(* Concurrent TransferAsset transactions against the optimistic store:      *)
(* a transaction is simulated on the committed state, recording the version *)
(* of every key it reads and buffering its writes; at validation it commits *)
(* if no key it read has been modified since, and otherwise is rejected     *)
(* with a conflict, which the client answers by submitting it again.        *)

Version(k) == IF k \in DOMAIN mvcc.version THEN mvcc.version[k] ELSE 0

\* The keys an invocation reads with GetState, each with the version read.
ReadSet(calls) ==
    {<<calls[i].key, Version(calls[i].key)>> :
        i \in {j \in 1..Len(calls) : calls[j].call = "GetState"}}

\* The transaction of client c after a simulation of TransferAsset on the
\* committed world state; an invocation that returns an error is not submitted.
Simulated(c, id, owner, newOwner, amount) ==
    LET resp == TransferAsset(world, id, owner, newOwner, amount)
        calls == StubCalls("TransferAsset", world, id, owner, newOwner, amount)
    IN  [status |-> IF resp.err = OK THEN "endorsed" ELSE "rejected",
         id |-> id, owner |-> owner, newOwner |-> newOwner, amount |-> amount,
         reads |-> ReadSet(calls), writes |-> resp.writes,
         first |-> mvcc.tx[c].first]

\* The ledger is seeded before the clients start.
Seed ==
    /\ \A c \in Clients : mvcc.tx[c].status = "idle"
    /\ InvokeInitLedger

TxSimulate(c) ==
    /\ mvcc.tx[c].status = "idle"
    /\ \E id \in Kinds, owner \in Owners, newOwner \in Owners,
          amount \in {a \in Amounts : a > 0} :
           mvcc' = [mvcc EXCEPT
                       !.tx[c] = Simulated(c, id, owner, newOwner, amount),
                       !.base = IF \A d \in Clients : mvcc.tx[d].status = "idle"
                                THEN world ELSE @,
                       !.overlapped = \E d \in Clients \ {c} : mvcc.tx[d].status = "endorsed"]
    /\ UNCHANGED <<world, created, last, nops, detail>>

\* No key the transaction read has been modified since it was read.
ReadsAreCurrent(tx) == \A r \in tx.reads : Version(r[1]) = r[2]

WrittenKeys(tx) == {tx.writes[i][1] : i \in 1..Len(tx.writes)}

TxCommit(c) ==
    /\ mvcc.tx[c].status = "endorsed"
    /\ ReadsAreCurrent(mvcc.tx[c])
    /\ world' = ApplyWrites(world, mvcc.tx[c].writes)
    /\ mvcc' = [mvcc EXCEPT
                   !.tx[c].status = "committed",
                   !.tx[c].first = IF @ = "none" THEN "committed" ELSE @,
                   !.version = [k \in (DOMAIN @) \cup WrittenKeys(mvcc.tx[c]) |->
                                   IF k \in WrittenKeys(mvcc.tx[c])
                                   THEN Version(k) + 1 ELSE Version(k)]]
    /\ UNCHANGED <<created, last, nops, detail>>

TxConflict(c) ==
    /\ mvcc.tx[c].status = "endorsed"
    /\ ~ReadsAreCurrent(mvcc.tx[c])
    /\ mvcc' = [mvcc EXCEPT
                   !.tx[c].status = "conflict",
                   !.tx[c].first = IF @ = "none" THEN "conflict" ELSE @]
    /\ UNCHANGED <<world, created, last, nops, detail>>

\* The client submits the rejected transaction again, from scratch.
TxRetry(c) ==
    /\ mvcc.tx[c].status = "conflict"
    /\ mvcc' = [mvcc EXCEPT
                   !.tx[c] = Simulated(c, mvcc.tx[c].id, mvcc.tx[c].owner,
                                       mvcc.tx[c].newOwner, mvcc.tx[c].amount)]
    /\ UNCHANGED <<world, created, last, nops, detail>>

NextMVCC ==
    \/ Seed
    \/ \E c \in Clients : TxSimulate(c)
    \/ \E c \in Clients : TxCommit(c)
    \/ \E c \in Clients : TxConflict(c)
    \/ \E c \in Clients : TxRetry(c)

SpecMVCC == Init /\ [][NextMVCC]_vars

-----------------------------------------------------------------------------
(* Vocabulary of the properties *)

\* The store key of the (Kind, Owner) identity.
KeyOf(id, owner) == CreateCompositeKey("Asset", <<id, owner>>)

\* A record is stored for (id, owner) in world state w.
Has(w, id, owner) == KeyOf(id, owner) \in DOMAIN w

\* The balance ReadAsset reports for (id, owner); 0 when there is no record.
Balance(w, id, owner) ==
    IF Has(w, id, owner) THEN ReadAsset(w, id, owner).asset.Amount ELSE 0

\* Sum of Amount over the records of `kind` stored under the keys `keys`.
RECURSIVE SumOver(_, _, _)
SumOver(w, keys, kind) ==
    IF keys = {} THEN 0
    ELSE LET k == CHOOSE x \in keys : TRUE
             rec == Unmarshal(w[k])
         IN  (IF rec.ID = kind THEN rec.Amount ELSE 0) + SumOver(w, keys \ {k}, kind)

\* Total supply of `kind`: the sum of Amount over every stored record of it.
Supply(w, kind) == SumOver(w, DOMAIN w, kind)

\* Every store entry except those under `keys` is the same in w1 and w2.
SameExcept(w1, w2, keys) ==
    /\ (DOMAIN w1) \ keys = (DOMAIN w2) \ keys
    /\ \A k \in (DOMAIN w1) \ keys : w1[k] = w2[k]

Succeeded(op) == last.op = op /\ last.err = OK

-----------------------------------------------------------------------------
(* Properties *)

\* No stored record has a negative Amount in world state w.
NonNegative(w) == \A k \in DOMAIN w : Unmarshal(w[k]).Amount >= 0

\* C1: after a successful TransferAsset(Kind, A, B, n) A's balance is its
\* balance before minus n, and B's balance is its balance before plus n
\* (n itself when B had no record).  Stated for distinct owners A and B, a
\* positive n and a ledger without negative balances, where the claim's two
\* conjuncts are independent of each other.
C1_TransferDebitsAndCredits ==
    ( /\ Succeeded("TransferAsset")
      /\ last.owner # last.newOwner
      /\ last.amount > 0
      /\ NonNegative(last.pre) ) =>
        /\ Balance(world, last.id, last.owner)
             = Balance(last.pre, last.id, last.owner) - last.amount
        /\ Balance(world, last.id, last.newOwner)
             = Balance(last.pre, last.id, last.newOwner) + last.amount

\* C2: a TransferAsset call, successful or failed, with any FromOwner and
\* ToOwner (equal or not), leaves the total supply of every Kind as it was
\* before the call.  Stated for a positive Amount on a ledger without
\* negative balances.
C2_TransferConservesSupply ==
    ( /\ last.op = "TransferAsset"
      /\ last.amount > 0
      /\ NonNegative(last.pre) ) =>
        \A kind \in Kinds : Supply(world, kind) = Supply(last.pre, kind)

\* C3: the Amount of every stored record is >= 0.
C3_AmountNeverNegative == NonNegative(world)

\* C4: after a successful UpdateAsset(Kind, Owner, NewAmount), ReadAsset(Kind,
\* Owner) returns Amount = NewAmount and no entry under another key is created
\* or changed.
C4_UpdateWritesTheDerivedKey ==
    Succeeded("UpdateAsset") =>
        /\ ReadAsset(world, last.id, last.owner).err = OK
        /\ ReadAsset(world, last.id, last.owner).asset.Amount = last.amount
        /\ SameExcept(world, last.pre, {KeyOf(last.id, last.owner)})

\* C5: no two store entries hold records with the same (Kind, Owner) pair.
C5_OneRecordPerIdentity ==
    \A k1, k2 \in DOMAIN world :
        ( /\ Unmarshal(world[k1]).ID = Unmarshal(world[k2]).ID
          /\ Unmarshal(world[k1]).Owner = Unmarshal(world[k2]).Owner ) => k1 = k2

\* C6: a successful CreateAsset(Kind, Owner, Amount) followed immediately by
\* ReadAsset(Kind, Owner) returns exactly that Kind, Owner and Amount.
C6_CreateThenReadRoundTrip ==
    Succeeded("CreateAsset") =>
        /\ ~Has(last.pre, last.id, last.owner)
        /\ ReadAsset(world, last.id, last.owner).err = OK
        /\ ReadAsset(world, last.id, last.owner).asset
             = [ID |-> last.id, Owner |-> last.owner, Amount |-> last.amount]

C6_Witness ==
    /\ Succeeded("CreateAsset")
    /\ last.amount > 0
    /\ last.pre # EmptyWorld

\* C7: CreateAsset on a (Kind, Owner) that already has a record fails with
\* AlreadyExists, whatever the Amount, and leaves the whole store unchanged.
C7_CreateExistingFails ==
    (last.op = "CreateAsset" /\ Has(last.pre, last.id, last.owner)) =>
        /\ last.err = AlreadyExists
        /\ world = last.pre

C7_Witness ==
    /\ last.op = "CreateAsset"
    /\ Has(last.pre, last.id, last.owner)
    /\ last.amount # Balance(last.pre, last.id, last.owner)
    /\ last.err = AlreadyExists

\* C8: TransferAsset(Kind, A, B, n) with n greater than A's balance fails with
\* InsufficientBalance and leaves the whole store unchanged.
C8_TransferOverBalanceFails ==
    ( /\ last.op = "TransferAsset"
      /\ Has(last.pre, last.id, last.owner)
      /\ last.amount > Balance(last.pre, last.id, last.owner) ) =>
        /\ last.err = InsufficientBalance
        /\ world = last.pre

C8_Witness ==
    /\ last.op = "TransferAsset"
    /\ last.owner # last.newOwner
    /\ Has(last.pre, last.id, last.owner)
    /\ Has(last.pre, last.id, last.newOwner)
    /\ last.amount > Balance(last.pre, last.id, last.owner)
    /\ last.err = InsufficientBalance

\* C9: for a (Kind, Owner) that no operation has created, ReadAsset and
\* UpdateAsset fail with NotFound, AssetExists returns false without error,
\* and none of the three changes the store.
C9_NeverCreatedIsAbsent ==
    ( /\ last.op \in {"ReadAsset", "UpdateAsset", "AssetExists"}
      /\ <<last.id, last.owner>> \notin last.preCreated ) =>
        /\ last.op \in {"ReadAsset", "UpdateAsset"} => last.err = NotFound
        /\ last.op = "AssetExists" => (last.err = OK /\ last.exists = FALSE)
        /\ world = last.pre

C9_Witness ==
    /\ last.op = "UpdateAsset"
    /\ <<last.id, last.owner>> \notin last.preCreated
    /\ \E o \in Owners : <<last.id, o>> \in last.preCreated
    /\ last.err = NotFound

\* C10: after a successful ConvertGemToExp(User, n), for every User including
\* the collector itself, the user's gem balance is m-n, the collector's gem
\* balance has increased by n, the user's exp balance has increased by n, the
\* total gem supply is unchanged and the total exp supply has increased by n.
C10_ConvertMovesGemAndMintsExp ==
    Succeeded("TransferGemToDistrib") =>
        /\ Balance(world, "gem", last.owner)
             = Balance(last.pre, "gem", last.owner) - last.amount
        /\ Balance(world, "gem", Collector)
             = Balance(last.pre, "gem", Collector) + last.amount
        /\ Balance(world, "exp", last.owner)
             = Balance(last.pre, "exp", last.owner) + last.amount
        /\ Supply(world, "gem") = Supply(last.pre, "gem")
        /\ Supply(world, "exp") = Supply(last.pre, "exp") + last.amount

-----------------------------------------------------------------------------
(* Properties of conversion, seeding, enumeration and frames *)

\* The stub calls the last invocation made.
CallsMade ==
    StubCalls(last.op, last.pre, last.id, last.owner, last.newOwner, last.amount)

\* C11: ConvertGemToExp(User, n) with n <= 0 fails with InvalidArgument before
\* any store read or write, and leaves the whole store unchanged.
C11_ConvertRejectsNonPositive ==
    (last.op = "TransferGemToDistrib" /\ last.amount <= 0) =>
        /\ last.err = InvalidArgument
        /\ CallsMade = <<>>
        /\ detail.writes = <<>>
        /\ world = last.pre

C11_Witness ==
    /\ last.op = "TransferGemToDistrib"
    /\ last.amount <= 0
    /\ Has(last.pre, "gem", last.owner)
    /\ last.err = InvalidArgument

\* C12: ConvertGemToExp(User, n) with n > 0 fails with NotFound when the user
\* has no gem record and with InsufficientBalance when the user's gem Amount is
\* less than n; in both cases no record is written or changed.
C12_ConvertWithoutFundsFails ==
    (last.op = "TransferGemToDistrib" /\ last.amount > 0) =>
        /\ ~Has(last.pre, "gem", last.owner) => last.err = NotFound
        /\ ( /\ Has(last.pre, "gem", last.owner)
             /\ Balance(last.pre, "gem", last.owner) < last.amount )
               => last.err = InsufficientBalance
        /\ last.err \in {NotFound, InsufficientBalance} =>
               (detail.writes = <<>> /\ world = last.pre)

C12_Witness ==
    /\ last.op = "TransferGemToDistrib"
    /\ last.amount > 0
    /\ Has(last.pre, "gem", last.owner)
    /\ Has(last.pre, "exp", last.owner)
    /\ Balance(last.pre, "gem", last.owner) < last.amount
    /\ last.err = InsufficientBalance

\* The (Kind, Owner) pairs and the keys of the literal bootstrap records.
InitPairs == {<<InitAssets[i].ID, InitAssets[i].Owner>> : i \in 1..Len(InitAssets)}
InitKeys == {KeyOf(pair[1], pair[2]) : pair \in InitPairs}

\* GetAllAssets is the second invocation, right after InitLedger on the
\* empty ledger (no other single operation creates the six pairs).
ListedAfterSeeding ==
    /\ last.op = "GetAllAssets"
    /\ nops = 2
    /\ last.preCreated = InitPairs

\* C13: after InitLedger on an empty ledger, GetAllAssets returns exactly six
\* records, one per literal bootstrap tuple, none missing, duplicated or added.
C13_ListingAfterSeeding ==
    ListedAfterSeeding =>
        /\ last.err = OK
        /\ Len(detail.listing.assets) = Len(InitAssets)
        /\ \A i \in 1..Len(InitAssets) :
               Cardinality({j \in 1..Len(detail.listing.assets) :
                               detail.listing.assets[j] = InitAssets[i]}) = 1

C13_Witness ==
    /\ ListedAfterSeeding
    /\ Len(detail.listing.assets) = Len(InitAssets)

\* C16: InitLedger invoked in any ledger state leaves each of the six literal
\* (Kind, Owner) pairs with exactly its literal Amount, and every record at any
\* other key unchanged.
C16_SeedingOverwrites ==
    Succeeded("InitLedger") =>
        /\ \A i \in 1..Len(InitAssets) :
               /\ ReadAsset(world, InitAssets[i].ID, InitAssets[i].Owner).err = OK
               /\ ReadAsset(world, InitAssets[i].ID, InitAssets[i].Owner).asset = InitAssets[i]
        /\ SameExcept(world, last.pre, InitKeys)

C16_Witness ==
    /\ Succeeded("InitLedger")
    /\ \E pair \in InitPairs :
           /\ Has(last.pre, pair[1], pair[2])
           /\ Balance(last.pre, pair[1], pair[2]) # Balance(world, pair[1], pair[2])

\* Every Kind and Owner of the model, the bootstrap ones included.
AllKinds == Kinds \cup {pair[1] : pair \in InitPairs}
AllOwners == Owners \cup {pair[2] : pair \in InitPairs}

\* C18: for every (Kind, Owner), ReadAsset(Kind, Owner) succeeds with Amount a
\* if and only if GetAllAssets returns exactly one record with that Kind,
\* Owner and Amount a.
C18_ListingAgreesWithReads ==
    LET listed == GetAllAssets(world, NoFault).assets
        amounts == {listed[j].Amount : j \in 1..Len(listed)}
    IN  \A id \in AllKinds, owner \in AllOwners :
            LET read == ReadAsset(world, id, owner)
            IN  \A a \in amounts \cup {read.asset.Amount} :
                    (read.err = OK /\ read.asset.Amount = a)
                        <=> Cardinality({j \in 1..Len(listed) :
                                            listed[j] = Asset(id, owner, a)}) = 1

C18_Witness ==
    /\ Succeeded("UpdateAsset")
    /\ last.amount # Balance(world, last.id, last.owner)
    /\ Len(GetAllAssets(world, NoFault).assets) > 0

\* C19: a successful TransferAsset(Kind, A, B, n) writes only the store
\* entries for (Kind, A) and (Kind, B); the written records keep Kind and
\* carry Owner A and Owner B respectively.
C19_TransferFrame ==
    Succeeded("TransferAsset") =>
        /\ SameExcept(world, last.pre,
                      {KeyOf(last.id, last.owner), KeyOf(last.id, last.newOwner)})
        /\ ReadAsset(world, last.id, last.owner).err = OK
        /\ ReadAsset(world, last.id, last.owner).asset.ID = last.id
        /\ ReadAsset(world, last.id, last.owner).asset.Owner = last.owner
        /\ ReadAsset(world, last.id, last.newOwner).err = OK
        /\ ReadAsset(world, last.id, last.newOwner).asset.ID = last.id
        /\ ReadAsset(world, last.id, last.newOwner).asset.Owner = last.newOwner

C19_Witness ==
    /\ Succeeded("TransferAsset")
    /\ last.owner # last.newOwner
    /\ \E k \in DOMAIN last.pre :
           k \notin {KeyOf(last.id, last.owner), KeyOf(last.id, last.newOwner)}

\* C20: ReadAsset, AssetExists and GetAllAssets never write: whether they
\* succeed or fail, the store after the call is the store before it.
C20_ReadsNeverWrite ==
    last.op \in {"ReadAsset", "AssetExists", "GetAllAssets"} =>
        /\ detail.writes = <<>>
        /\ \A i \in 1..Len(CallsMade) : CallsMade[i].call # "PutState"
        /\ world = last.pre

C20_Witness ==
    /\ last.op = "ReadAsset"
    /\ last.err = OK
    /\ last.asset.Amount > 0

-----------------------------------------------------------------------------
(* Properties of invocations in which a stub call fails *)

\* C15: in TransferAsset, ConvertGemToExp and InitLedger, when a store get or
\* put fails part-way, the operation returns an error and makes no further
\* write, and the committed store is the store before the invocation.
C15_FailureCommitsNothing ==
    ( /\ last.op \in {"TransferAsset", "TransferGemToDistrib", "InitLedger"}
      /\ detail.failAt \in 1..Len(CallsMade) ) =>
        /\ last.err # OK
        /\ PutsOf(detail.writes)
               = SelectSeq(SubSeq(CallsMade, 1, detail.failAt - 1),
                           LAMBDA c : c.call = "PutState")
        /\ world = last.pre

\* A debit has been buffered and the credit's PutState has failed.
C15_Witness ==
    /\ last.op = "TransferAsset"
    /\ last.owner # last.newOwner
    /\ last.amount > 0
    /\ detail.failAt = Len(CallsMade)
    /\ Len(detail.writes) = 1
    /\ last.err = StoreError
    /\ world = last.pre

\* C17: whenever GetAllAssets has opened a cursor, the cursor is closed by the
\* time GetAllAssets returns: on normal completion, on an iteration error and
\* on a deserialization failure, which ends the enumeration with an error and
\* no records.
C17_CursorAlwaysClosed ==
    last.op = "GetAllAssets" =>
        /\ detail.listing.opened => detail.listing.closed
        /\ detail.fault.at # "open" => detail.listing.opened
        /\ detail.fault.at = "none" => last.err = OK
        /\ detail.fault.at = "next" => last.err = StoreError
        /\ detail.fault.at = "value" => last.err = SerializationError
        /\ last.err # OK => detail.listing.assets = <<>>

C17_Witness ==
    /\ last.op = "GetAllAssets"
    /\ detail.fault.at = "value"
    /\ detail.fault.i > 1
    /\ last.err = SerializationError
    /\ detail.listing.opened
    /\ detail.listing.closed

-----------------------------------------------------------------------------
(* Properties of concurrent transfers *)

\* The keys a transaction reads or writes.
Touched(tx) == {r[1] : r \in tx.reads} \cup WrittenKeys(tx)

\* World state w after the transfer of transaction tx is applied to it alone.
AppliedTo(w, tx) ==
    LET resp == TransferAsset(w, tx.id, tx.owner, tx.newOwner, tx.amount)
    IN  IF resp.err = OK THEN ApplyWrites(w, resp.writes) ELSE w

\* Two transfers simulated on the same committed state, touching a common
\* record, have both been validated.
ConcurrentPairValidated ==
    /\ mvcc.overlapped
    /\ \A c \in Clients : mvcc.tx[c].first # "none"
    /\ Touched(mvcc.tx[1]) \cap Touched(mvcc.tx[2]) # {}

\* C14: of two concurrent TransferAsset invocations that touch the same
\* record exactly one commits and the other observes a conflict; once the
\* loser has been retried, the state is that of the two transfers applied in
\* some serial order.
C14_ExactlyOneCommits ==
    ConcurrentPairValidated =>
        /\ \E c \in Clients :
               /\ mvcc.tx[c].first = "committed"
               /\ \A d \in Clients \ {c} : mvcc.tx[d].first = "conflict"
        /\ (\A c \in Clients : mvcc.tx[c].status \in {"committed", "rejected"}) =>
               world \in {AppliedTo(AppliedTo(mvcc.base, mvcc.tx[1]), mvcc.tx[2]),
                          AppliedTo(AppliedTo(mvcc.base, mvcc.tx[2]), mvcc.tx[1])}

====
